---- MODULE Spec2Model ----
(***************************************************************************)
(* A model of escpos-db-rs: the sorted integer-keyed map (src/int_map.rs), *)
(* the Features flag set (src/lib.rs) and the parts of the code generator  *)
(* (codegen/src/main.rs) that resolve the media width and assign feature   *)
(* bits.                                                                   *)
(*                                                                         *)
(* Conventions.  Option<T>: None is <<>>, Some(x) is <<x>>.  A map entry   *)
(* (u8, T) is the pair <<k, v>>.  Slice indices are 0-based as in the       *)
(* source; At(s, i) reads s[i].                                            *)
(***************************************************************************)
EXTENDS Integers, Sequences, FiniteSets

VARIABLES
    im_pc, im_input, im_map, im_key, im_got,   \* IntMap::from_entries / get
    ow_entries, ow_prev, ow_op, ow_ret,        \* OwnedIntMap
    md_pc, md_mm, md_pixels, md_dpi, md_out,   \* Media::get_width
    cg_pc, cg_db, cg_flags, cg_methods, cg_out, \* the generator's main
    ft_flags, ft_methods, ft_cur, ft_hist      \* a Features value at run time

im_vars == <<im_pc, im_input, im_map, im_key, im_got>>
ow_vars == <<ow_entries, ow_prev, ow_op, ow_ret>>
md_vars == <<md_pc, md_mm, md_pixels, md_dpi, md_out>>
cg_vars == <<cg_pc, cg_db, cg_flags, cg_methods, cg_out>>
ft_vars == <<ft_flags, ft_methods, ft_cur, ft_hist>>
vars == <<im_vars, ow_vars, md_vars, cg_vars, ft_vars>>

\* ------------------------------------------------------------------ bounds

\* Longest entry slice handed to IntMap::from_entries.
MaxEntries == 3
\* Longest backing vector of an OwnedIntMap.
MaxOwned == 3
\* Longest batch of pairs handed to from_iter or extend.
MaxPairs == 2

\* Keys are u8; the ones the model draws from (both ends of the range and
\* the keys of the documented examples).
Keys == {0, 3, 5, 9, 255}
OwnedKeys == {3, 5, 9}
Vals == {"a", "b"}

\* All sequences over S of length at most n.
SeqUpTo(S, n) == UNION {[1..m -> S] : m \in 0..n}

\* ------------------------------------------------------------------ helpers

None == <<>>
Some(x) == <<x>>

At(s, i) == s[i + 1]

key_f(e) == e[1]

KeysOf(entries) == [i \in 1..Len(entries) |-> key_f(entries[i])]

\* "keys strictly increasing by index": the invariant of IntMap.
StrictlyIncreasing(entries) ==
    \A i \in 1..(Len(entries) - 1) : key_f(entries[i]) < key_f(entries[i + 1])

\* ------------------------------------------------------------------ IntMap

from_entries_unchecked(entries) == [panicked |-> FALSE, entries |-> entries]

InvalidEntries == [panicked |-> TRUE, entries |-> <<>>]

\* A faulty variant: the comparison lets an equal key through.
RECURSIVE from_entries_loop_lt(_, _, _)
from_entries_loop_lt(entries, prev, i) ==
    IF i < Len(entries)
    THEN LET cur == key_f(At(entries, i))
         IN  IF cur < prev
             THEN InvalidEntries
             ELSE from_entries_loop_lt(entries, cur, i + 1)
    ELSE from_entries_unchecked(entries)

\* The while loop of from_entries: prev is the key at i - 1.
RECURSIVE from_entries_loop(_, _, _)
from_entries_loop(entries, prev, i) ==
    IF i < Len(entries)
    THEN LET cur == key_f(At(entries, i))
         IN  IF cur <= prev
             THEN InvalidEntries
             ELSE from_entries_loop(entries, cur, i + 1)
    ELSE from_entries_unchecked(entries)

from_entries(entries) ==
    IF entries # <<>>
    THEN from_entries_loop(entries, key_f(At(entries, 0)), 1)
    ELSE from_entries_unchecked(entries)

Ok(i) == [ok |-> TRUE, idx |-> i]
Err(i) == [ok |-> FALSE, idx |-> i]

\* A faulty variant: on Less the search resumes at mid + 2 (an off-by-one).
RECURSIVE BinarySearchSkip(_, _, _, _)
BinarySearchSkip(entries, k, left, right) ==
    IF left < right
    THEN LET mid == left + ((right - left) \div 2)
             cur == key_f(At(entries, mid))
         IN  IF cur = k THEN Ok(mid)
             ELSE IF cur < k
                  THEN BinarySearchSkip(entries, k, mid + 2, right)
                  ELSE BinarySearchSkip(entries, k, left, mid)
    ELSE Err(left)

\* slice::binary_search_by as the standard library had it from Rust 1.52 to
\* 1.81: probe the middle of [left, right), return on the first Equal.
\* (size is right - left throughout.)
RECURSIVE BinarySearchClassic(_, _, _, _)
BinarySearchClassic(entries, k, left, right) ==
    IF left < right
    THEN LET mid == left + ((right - left) \div 2)
             cur == key_f(At(entries, mid))
         IN  IF cur = k THEN Ok(mid)
             ELSE IF cur < k
                  THEN BinarySearchClassic(entries, k, mid + 1, right)
                  ELSE BinarySearchClassic(entries, k, left, mid)
    ELSE Err(left)

\* The loop of the branchless search (Rust 1.82 on): base moves to mid unless
\* the probe is Greater; the result is where base ends.
RECURSIVE BranchlessBase(_, _, _, _)
BranchlessBase(entries, k, base, size) ==
    IF size > 1
    THEN LET half == size \div 2
             mid == base + half
         IN  BranchlessBase(entries, k,
                            IF key_f(At(entries, mid)) > k THEN base ELSE mid,
                            size - half)
    ELSE base

BinarySearchBranchless(entries, k) ==
    IF Len(entries) = 0
    THEN Err(0)
    ELSE LET base == BranchlessBase(entries, k, 0, Len(entries))
             cur == key_f(At(entries, base))
         IN  IF cur = k THEN Ok(base)
             ELSE Err(base + (IF cur < k THEN 1 ELSE 0))

\* slice::binary_search_by_key(&k, key_f).  Which of several equal keys is
\* found is unspecified ("any one of the matches could be returned") and
\* differs between the releases of the standard library the crate builds
\* with: the set holds the outcome of each.  On strictly increasing keys the
\* two agree.
binary_search_by_key(entries, k) ==
    {BinarySearchClassic(entries, k, 0, Len(entries)),
     BinarySearchBranchless(entries, k)}

\* IntMap::get: `.ok()?` turns Err into None.
get(entries, k) ==
    {IF r.ok THEN Some(At(entries, r.idx)[2]) ELSE None
       : r \in binary_search_by_key(entries, k)}

\* ------------------------------------------------------- IntMap: the machine

ImIdle ==
    /\ im_pc = "idle"
    /\ im_input = <<>>
    /\ im_map = from_entries_unchecked(<<>>)
    /\ im_key = 0
    /\ im_got = None

ImInit ==
    /\ im_pc = "args"
    /\ im_input \in SeqUpTo(Keys \X Vals, MaxEntries)
    /\ im_map = from_entries_unchecked(<<>>)
    /\ im_key = 0
    /\ im_got = None

\* const fn from_entries(entries): panics or yields the map.
FromEntries ==
    /\ im_pc = "args"
    /\ im_map' = from_entries(im_input)
    /\ im_pc' = IF im_map'.panicked THEN "panicked" ELSE "built"
    /\ UNCHANGED <<im_input, im_key, im_got>>

\* map.get(k) on the map from_entries returned.
Get(k) ==
    /\ im_pc \in {"built", "looked"}
    /\ im_key' = k
    /\ im_got' \in get(im_map.entries, k)
    /\ im_pc' = "looked"
    /\ UNCHANGED <<im_input, im_map>>

ImNext ==
    \/ FromEntries /\ UNCHANGED <<ow_vars, md_vars, cg_vars, ft_vars>>
    \/ (\E k \in Keys : Get(k)) /\ UNCHANGED <<ow_vars, md_vars, cg_vars, ft_vars>>

\* ------------------------------------------------------------ OwnedIntMap

\* Where a stable sort puts e: after every entry whose key is not greater.
RECURSIVE InsertSorted(_, _)
InsertSorted(sorted, e) ==
    IF sorted = <<>> \/ key_f(sorted[Len(sorted)]) <= key_f(e)
    THEN Append(sorted, e)
    ELSE Append(InsertSorted(SubSeq(sorted, 1, Len(sorted) - 1), e),
                sorted[Len(sorted)])

\* slice::sort_by_key(key_f): a stable sort, so entries with equal keys keep
\* their order; nothing is removed.
RECURSIVE sort_by_key(_)
sort_by_key(s) ==
    IF s = <<>>
    THEN <<>>
    ELSE InsertSorted(sort_by_key(SubSeq(s, 1, Len(s) - 1)), s[Len(s)])

\* Vec::truncate(len).
truncate(s, len) == IF len < Len(s) THEN SubSeq(s, 1, len) ELSE s

\* Vec::insert(i, e): e lands at index i, the tail shifts right.
VecInsert(s, i, e) == SubSeq(s, 1, i) \o <<e>> \o SubSeq(s, i + 1, Len(s))

\* FromIterator::from_iter: collect, then sort.
from_iter(pairs) == sort_by_key(pairs)

\* A faulty variant: a new key is pushed at the end instead of at the insertion
\* point.
insert_push(entries, key, val) ==
    {IF r.ok
     THEN [entries |-> [entries EXCEPT ![r.idx + 1] = <<key, val>>],
           ret |-> Some(At(entries, r.idx)[2])]
     ELSE [entries |-> Append(entries, <<key, val>>), ret |-> None]
       : r \in binary_search_by_key(entries, key)}

\* OwnedIntMap::insert: the map afterwards and the value returned, one
\* outcome per outcome of the search.
insert(entries, key, val) ==
    {IF r.ok
     THEN [entries |-> [entries EXCEPT ![r.idx + 1] = <<key, val>>],
           ret |-> Some(At(entries, r.idx)[2])]
     ELSE [entries |-> VecInsert(entries, r.idx, <<key, val>>), ret |-> None]
       : r \in binary_search_by_key(entries, key)}

\* A faulty variant: no DropGuard, so a panic leaves the appended pairs behind.
extend_unguarded(entries, pairs, panics) ==
    LET appended == entries \o pairs
    IN  IF panics THEN appended ELSE sort_by_key(appended)

\* Extend::extend.  The iterator yields `pairs` and then either ends or
\* panics.  Vec::extend appends each pair as it is yielded; on a panic the
\* unwinding drops the guard, which truncates to reset_len; otherwise the
\* guard is forgotten and the vector sorted.
extend(entries, pairs, panics) ==
    LET reset_len == Len(entries)
        appended == entries \o pairs
    IN  IF panics
        THEN truncate(appended, reset_len)
        ELSE sort_by_key(appended)

\* ------------------------------------------------- OwnedIntMap: the machine

\* What the last call was: ow_op.  ow_prev is the map before it, ow_ret what
\* insert or get returned.
OpRec(kind, key, val, pairs, panics) ==
    [kind |-> kind, key |-> key, val |-> val, pairs |-> pairs, panics |-> panics]

OwIdle ==
    /\ ow_entries = <<>>
    /\ ow_prev = <<>>
    /\ ow_op = OpRec("idle", 0, "a", <<>>, FALSE)
    /\ ow_ret = None

\* The only constructor is from_iter.
OwInit ==
    \E pairs \in SeqUpTo(OwnedKeys \X Vals, MaxPairs) :
        /\ ow_entries = from_iter(pairs)
        /\ ow_prev = <<>>
        /\ ow_op = OpRec("from_iter", 0, "a", pairs, FALSE)
        /\ ow_ret = None

Insert(key, val) ==
    /\ \E out \in insert(ow_entries, key, val) :
          /\ Len(out.entries) <= MaxOwned
          /\ ow_entries' = out.entries
          /\ ow_ret' = out.ret
    /\ ow_prev' = ow_entries
    /\ ow_op' = OpRec("insert", key, val, <<>>, FALSE)

ExtendCall(pairs, panics) ==
    /\ Len(ow_entries) + Len(pairs) <= MaxOwned
    /\ ow_entries' = extend(ow_entries, pairs, panics)
    /\ ow_prev' = ow_entries
    /\ ow_op' = OpRec("extend", 0, "a", pairs, panics)
    /\ ow_ret' = None

\* get through Deref<Target = IntMap>.
OwnedGet(key) ==
    /\ ow_ret' \in get(ow_entries, key)
    /\ ow_prev' = ow_entries
    /\ ow_op' = OpRec("get", key, "a", <<>>, FALSE)
    /\ UNCHANGED ow_entries

OwNext ==
    \/ (\E k \in OwnedKeys, v \in Vals : Insert(k, v))
          /\ UNCHANGED <<im_vars, md_vars, cg_vars, ft_vars>>
    \/ (\E pairs \in SeqUpTo(OwnedKeys \X Vals, MaxPairs), panics \in BOOLEAN :
           ExtendCall(pairs, panics))
          /\ UNCHANGED <<im_vars, md_vars, cg_vars, ft_vars>>
    \/ (\E k \in OwnedKeys : OwnedGet(k))
          /\ UNCHANGED <<im_vars, md_vars, cg_vars, ft_vars>>

\* ------------------------------------------------------ Media::get_width

\* MaybeUnknown<T>.
Unknown == [tag |-> "Unknown"]
Known(x) == [tag |-> "Known", val |-> x]

opt(m) == IF m.tag = "Unknown" THEN None ELSE Some(m.val)

\* flatten: Option<MaybeUnknown<T>> to Option<T>.
flatten(x) == IF x = None THEN None ELSE opt(x[1])

\* An f32 is modelled as the exact rational num/den; the rounding of single
\* precision is not modelled.
Rat(n, d) == [num |-> n, den |-> d]
RatMul(a, b) == Rat(a.num * b.num, a.den * b.den)
RatDiv(a, b) == Rat(a.num * b.den, a.den * b.num)
F32From(n) == Rat(n, 1)
MmPerInch == Rat(254, 10)

U16Max == 65535

\* `x as u16` on a non-negative f32: truncates toward zero and saturates.
AsU16(x) ==
    LET t == x.num \div x.den
    IN  IF t > U16Max THEN U16Max ELSE t

Resolved(w) == [panicked |-> FALSE, width |-> w]
UnwrapPanic == [panicked |-> TRUE, width |-> None]

\* A faulty variant: a missing dpi yields an absent width instead of a panic.
get_width_lenient(mm, pixels, dpi) ==
    LET m == opt(mm)
        p == flatten(pixels)
        d == flatten(dpi)
    IN  IF m # None /\ p # None THEN Resolved(Some([mm |-> m[1], px |-> p[1]]))
        ELSE IF m = None /\ p = None THEN Resolved(None)
        ELSE IF d = None THEN Resolved(None)
        ELSE IF m # None
             THEN Resolved(Some([mm |-> m[1],
                     px |-> AsU16(RatMul(RatMul(F32From(d[1]), m[1]), MmPerInch))]))
             ELSE Resolved(Some([mm |-> RatDiv(F32From(p[1]),
                                               RatDiv(F32From(d[1]), MmPerInch)),
                                 px |-> p[1]]))

\* Media::get_width: the four arms of the match, in the order of the source.
get_width(mm, pixels, dpi) ==
    LET m == opt(mm)
        p == flatten(pixels)
        d == flatten(dpi)
    IN  IF m # None /\ p # None THEN Resolved(Some([mm |-> m[1], px |-> p[1]]))
        ELSE IF m = None /\ p = None THEN Resolved(None)
        ELSE IF m # None
             THEN IF d = None
                  THEN UnwrapPanic
                  ELSE LET px == RatMul(RatMul(F32From(d[1]), m[1]), MmPerInch)
                       IN  Resolved(Some([mm |-> m[1], px |-> AsU16(px)]))
             ELSE IF d = None
                  THEN UnwrapPanic
                  ELSE LET dpmm == RatDiv(F32From(d[1]), MmPerInch)
                           mmv == RatDiv(F32From(p[1]), dpmm)
                       IN  Resolved(Some([mm |-> mmv, px |-> p[1]]))

MmInputs == {Unknown, Known(Rat(10, 1)), Known(Rat(72, 1)), Known(Rat(80, 1))}
PixelInputs == {None, Some(Unknown), Some(Known(80)), Some(Known(512)), Some(Known(576))}
DpiInputs == {None, Some(Unknown), Some(Known(180)), Some(Known(203))}

MdIdle ==
    /\ md_pc = "idle"
    /\ md_mm = Unknown
    /\ md_pixels = None
    /\ md_dpi = None
    /\ md_out = Resolved(None)

MdInit ==
    /\ md_pc = "loaded"
    /\ md_mm \in MmInputs
    /\ md_pixels \in PixelInputs
    /\ md_dpi \in DpiInputs
    /\ md_out = Resolved(None)

\* profile.media.get_width() while the profile is written.
GetWidth ==
    /\ md_pc = "loaded"
    /\ md_out' = get_width(md_mm, md_pixels, md_dpi)
    /\ md_pc' = IF md_out'.panicked THEN "panicked" ELSE "resolved"
    /\ UNCHANGED <<md_mm, md_pixels, md_dpi>>

MdNext == GetWidth /\ UNCHANGED <<im_vars, ow_vars, cg_vars, ft_vars>>

\* ------------------------------------------------ Features (src/lib.rs)

\* Longest chain of with_* calls followed on one Features value.
MaxOps == 3

RECURSIVE Pow2(_)
Pow2(n) == IF n = 0 THEN 1 ELSE 2 * Pow2(n - 1)

\* FeaturesInner is a bitflags set over u32: union is |, difference is & !,
\* contains(flag) is (bits & flag) == flag.
RECURSIVE BitOr(_, _)
BitOr(a, b) ==
    IF a = 0 THEN b
    ELSE IF b = 0 THEN a
    ELSE (IF a % 2 = 1 \/ b % 2 = 1 THEN 1 ELSE 0) + 2 * BitOr(a \div 2, b \div 2)

RECURSIVE BitAndNot(_, _)
BitAndNot(a, b) ==
    IF a = 0 THEN 0
    ELSE (IF a % 2 = 1 /\ b % 2 = 0 THEN 1 ELSE 0) + 2 * BitAndNot(a \div 2, b \div 2)

RECURSIVE BitXor(_, _)
BitXor(a, b) ==
    IF a = 0 THEN b
    ELSE IF b = 0 THEN a
    ELSE (IF a % 2 # b % 2 THEN 1 ELSE 0) + 2 * BitXor(a \div 2, b \div 2)

union(a, b) == BitOr(a, b)
difference(a, b) == BitAndNot(a, b)
contains(a, flag) == BitAndNot(flag, a) = 0

\* FeaturesInner::empty(), and Features::new() around it.
FeaturesNew == 0

\* A faulty variant: switching a feature off toggles its bit.
with_toggle(self, flag, on) ==
    IF on THEN union(self, flag) ELSE BitXor(self, flag)

\* Features::_with.
_with(self, flag, on) ==
    IF on THEN union(self, flag) ELSE difference(self, flag)

\* ------------------------------------------- the generator (codegen main)

\* The feature and profile names the model draws from, each with its place
\* in the byte order of String (the order of a BTreeMap's keys).
FeatureNames == {"barcodeA", "graphics", "qrCode"}
ProfileNames == {"TM-T88", "default"}

Rank(name) ==
    CASE name = "barcodeA" -> 1
      [] name = "graphics" -> 2
      [] name = "qrCode" -> 3
      [] name = "TM-T88" -> 1
      [] name = "default" -> 2

\* heck::AsShoutySnakeCase and heck::AsSnakeCase on those names.
AsShoutySnakeCase(name) ==
    CASE name = "barcodeA" -> "BARCODE_A"
      [] name = "graphics" -> "GRAPHICS"
      [] name = "qrCode" -> "QR_CODE"

AsSnakeCase(name) ==
    CASE name = "barcodeA" -> "barcode_a"
      [] name = "graphics" -> "graphics"
      [] name = "qrCode" -> "qr_code"

\* BTreeMap::keys(): the keys in increasing order.
RECURSIVE keys(_)
keys(S) ==
    IF S = {}
    THEN <<>>
    ELSE LET least == CHOOSE x \in S : \A y \in S : Rank(x) <= Rank(y)
         IN  <<least>> \o keys(S \ {least})

\* db.profiles.first_key_value().
first_profile(db) == db[keys(DOMAIN db)[1]]

\* The constants of FeaturesInner: `const {feature} = {1u32 << i};` for the
\* i-th key (from 0) of the first profile's features.
FlagDecls(features) ==
    LET ks == keys(DOMAIN features)
    IN  [i \in 1..Len(ks) |->
            [name |-> AsShoutySnakeCase(ks[i]), bits |-> Pow2(i - 1)]]

\* The is_* and with_* methods: one pair per key, each naming its flag.
Methods(features) ==
    LET ks == keys(DOMAIN features)
    IN  [i \in 1..Len(ks) |->
            [fn |-> AsSnakeCase(ks[i]), flag |-> AsShoutySnakeCase(ks[i])]]

\* `FeaturesInner::empty().union(FeaturesInner::X)...`: the flags a
\* profile's record names, one per feature it declares true.
RECURSIVE UnionChain(_, _)
UnionChain(features, ks) ==
    IF ks = <<>>
    THEN <<>>
    ELSE (IF features[ks[1]] THEN <<AsShoutySnakeCase(ks[1])>> ELSE <<>>)
         \o UnionChain(features, Tail(ks))

ProfileFeatures(features) == UnionChain(features, keys(DOMAIN features))

\* What the emitted source means: a flag name resolves to a declared
\* constant or to nothing.
Declared(flags, name) == \E i \in 1..Len(flags) : flags[i].name = name

FlagValue(flags, name) ==
    flags[CHOOSE i \in 1..Len(flags) : flags[i].name = name].bits

\* The value of a union chain, over the names that resolve.
RECURSIVE ChainValue(_, _)
ChainValue(flags, chain) ==
    IF chain = <<>>
    THEN FeaturesNew
    ELSE union(ChainValue(flags, SubSeq(chain, 1, Len(chain) - 1)),
               IF Declared(flags, chain[Len(chain)])
               THEN FlagValue(flags, chain[Len(chain)])
               ELSE 0)

FeatureMaps == UNION {[F -> BOOLEAN] : F \in SUBSET FeatureNames}
Dbs == UNION {[P -> FeatureMaps] : P \in (SUBSET ProfileNames) \ {{}}}

CgIdle ==
    /\ cg_pc = "idle"
    /\ cg_db = <<>>
    /\ cg_flags = <<>>
    /\ cg_methods = <<>>
    /\ cg_out = <<>>

\* The database as loaded; nothing written yet.
CgInit ==
    /\ cg_pc = "loaded"
    /\ cg_db \in Dbs
    /\ cg_flags = <<>>
    /\ cg_methods = <<>>
    /\ cg_out = <<>>

\* main, lines 185-226: the flag constants and the accessors, from the first
\* profile.
EmitFeaturesApi ==
    /\ cg_pc = "loaded"
    /\ cg_flags' = FlagDecls(first_profile(cg_db))
    /\ cg_methods' = Methods(first_profile(cg_db))
    /\ cg_pc' = "profiles"
    /\ UNCHANGED <<cg_db, cg_out>>

\* main, lines 228-282: the next profile's record, in key order.
EmitProfile ==
    /\ cg_pc = "profiles"
    /\ Len(cg_out) < Len(keys(DOMAIN cg_db))
    /\ LET name == keys(DOMAIN cg_db)[Len(cg_out) + 1]
       IN  cg_out' = Append(cg_out,
                [name |-> name, features |-> ProfileFeatures(cg_db[name])])
    /\ UNCHANGED <<cg_pc, cg_db, cg_flags, cg_methods>>

\* main, lines 284-301: the name table, and the file is flushed.
Finish ==
    /\ cg_pc = "profiles"
    /\ Len(cg_out) = Len(keys(DOMAIN cg_db))
    /\ cg_pc' = "done"
    /\ UNCHANGED <<cg_db, cg_flags, cg_methods, cg_out>>

CgNext ==
    \/ EmitFeaturesApi /\ UNCHANGED <<im_vars, ow_vars, md_vars, ft_vars>>
    \/ EmitProfile /\ UNCHANGED <<im_vars, ow_vars, md_vars, ft_vars>>
    \/ Finish /\ UNCHANGED <<im_vars, ow_vars, md_vars, ft_vars>>

\* ------------------------------------------- Features: the run-time machine

FtIdle ==
    /\ ft_flags = <<>>
    /\ ft_methods = <<>>
    /\ ft_cur = 0
    /\ ft_hist = <<>>

\* Features::new() under the API generated from some first profile.
FtInit ==
    \E features \in {[f \in F |-> TRUE] : F \in SUBSET FeatureNames} :
        /\ ft_flags = FlagDecls(features)
        /\ ft_methods = Methods(features)
        /\ ft_cur = FeaturesNew
        /\ ft_hist = <<>>

\* self.with_<fn>(on), which is self._with(FeaturesInner::<flag>, on).
With(m, on) ==
    /\ Len(ft_hist) < MaxOps
    /\ ft_cur' = _with(ft_cur, FlagValue(ft_flags, ft_methods[m].flag), on)
    /\ ft_hist' = Append(ft_hist, [fn |-> ft_methods[m].fn, on |-> on,
                                   before |-> ft_cur, after |-> ft_cur'])
    /\ UNCHANGED <<ft_flags, ft_methods>>

\* self.is_<fn>(), which is self.0.contains(FeaturesInner::<flag>).
is_(self, fn) ==
    LET m == CHOOSE i \in 1..Len(ft_methods) : ft_methods[i].fn = fn
    IN  contains(self, FlagValue(ft_flags, ft_methods[m].flag))

FtNext ==
    (\E m \in 1..Len(ft_methods), on \in BOOLEAN : With(m, on))
       /\ UNCHANGED <<im_vars, ow_vars, md_vars, cg_vars>>

\* -------------------------------------------------------- specifications

InitIntMap == ImInit /\ OwIdle /\ MdIdle /\ CgIdle /\ FtIdle
SpecIntMap == InitIntMap /\ [][ImNext]_vars

InitOwned == OwInit /\ ImIdle /\ MdIdle /\ CgIdle /\ FtIdle
SpecOwned == InitOwned /\ [][OwNext]_vars

InitMedia == MdInit /\ ImIdle /\ OwIdle /\ CgIdle /\ FtIdle
SpecMedia == InitMedia /\ [][MdNext]_vars

InitCodegen == CgInit /\ ImIdle /\ OwIdle /\ MdIdle /\ FtIdle
SpecCodegen == InitCodegen /\ [][CgNext]_vars

InitFeatures == FtInit /\ ImIdle /\ OwIdle /\ MdIdle /\ CgIdle
SpecFeatures == InitFeatures /\ [][FtNext]_vars

\* ------------------------------------------------------------------ claims

\* C1: on the map from_entries builds from a strictly increasing sequence,
\* get(k) is the value paired with k when k is a key of the sequence and
\* absent otherwise.
C1_GetFindsExactlyTheEntries ==
    (im_pc = "looked" /\ StrictlyIncreasing(im_input)) =>
        IF \E i \in 1..Len(im_input) : im_input[i][1] = im_key
        THEN \E i \in 1..Len(im_input) :
                /\ im_input[i][1] = im_key
                /\ im_got = Some(im_input[i][2])
        ELSE im_got = None

C1_Witness ==
    /\ im_pc = "looked"
    /\ Len(im_input) = 3
    /\ im_key = 9
    /\ KeysOf(im_input) = <<3, 9, 255>>
    /\ im_got = Some("b")

\* C2: from_entries panics exactly when some adjacent pair of keys is not
\* increasing; [5, 3, 9] and [5, 5, 9] are rejected, the empty and the
\* single-entry sequences accepted.
C2_PanicsIffNotStrictlyIncreasing ==
    im_pc \in {"built", "panicked", "looked"} =>
        /\ im_map.panicked <=> ~StrictlyIncreasing(im_input)
        /\ (im_pc = "panicked") <=> im_map.panicked
        /\ ~im_map.panicked => im_map.entries = im_input
        /\ Len(im_input) <= 1 => ~im_map.panicked
        /\ KeysOf(im_input) \in {<<5, 3, 9>>, <<5, 5, 9>>} => im_map.panicked

C2_Witness ==
    /\ im_pc = "panicked"
    /\ KeysOf(im_input) = <<5, 5, 9>>

\* C3: the backing entries of an OwnedIntMap always have strictly increasing
\* keys (sorted and free of duplicates), however it was built and changed.
C3_OwnedKeysStrictlyIncreasing ==
    StrictlyIncreasing(ow_entries)

\* C4: insert(k, v) on a map with strictly increasing keys.  k present: the
\* old value is returned, the length and every other entry stay; k absent:
\* absent is returned, the length grows by one and the keys stay strictly
\* increasing.  Either way get(k) is v and get of every other key is as it
\* was.
C4_InsertOverwritesOrInserts ==
    (ow_op.kind = "insert" /\ StrictlyIncreasing(ow_prev)) =>
        LET k == ow_op.key
            v == ow_op.val
            at == {i \in 1..Len(ow_prev) : ow_prev[i][1] = k}
        IN  /\ get(ow_entries, k) = {Some(v)}
            /\ \A j \in OwnedKeys \ {k} : get(ow_entries, j) = get(ow_prev, j)
            /\ StrictlyIncreasing(ow_entries)
            /\ IF at # {}
               THEN /\ \E i \in at : ow_ret = Some(ow_prev[i][2])
                    /\ Len(ow_entries) = Len(ow_prev)
                    /\ \A i \in 1..Len(ow_prev) :
                          i \notin at => ow_entries[i] = ow_prev[i]
               ELSE /\ ow_ret = None
                    /\ Len(ow_entries) = Len(ow_prev) + 1

C4_Witness ==
    /\ ow_op.kind = "insert"
    /\ ow_op.key = 5
    /\ KeysOf(ow_prev) = <<3, 9>>
    /\ KeysOf(ow_entries) = <<3, 5, 9>>
    /\ ow_ret = None

\* C5: after from_iter or a completed extend, get(k) is the value of the
\* last pair written for k, for every key k of the batch.
C5_LastWriteWins ==
    (ow_op.kind = "from_iter" \/ (ow_op.kind = "extend" /\ ~ow_op.panics)) =>
        LET pairs == ow_op.pairs
        IN  \A i \in 1..Len(pairs) :
               (\A j \in (i + 1)..Len(pairs) : pairs[j][1] # pairs[i][1]) =>
                   get(ow_entries, pairs[i][1]) = {Some(pairs[i][2])}

Count(s, e) == Cardinality({i \in 1..Len(s) : s[i] = e})

\* C6: an extend that fails partway leaves the entries exactly as they were
\* before the call; one that completes has added every supplied pair.
C6_ExtendIsTransactional ==
    ow_op.kind = "extend" =>
        IF ow_op.panics
        THEN ow_entries = ow_prev
        ELSE \A e \in OwnedKeys \X Vals :
                Count(ow_entries, e) = Count(ow_prev, e) + Count(ow_op.pairs, e)

C6_Witness ==
    /\ ow_op.kind = "extend"
    /\ ow_op.panics
    /\ Len(ow_op.pairs) = 2
    /\ Len(ow_prev) = 1
    /\ ow_entries = ow_prev

\* C7: with only mm known and dpi known, the width keeps mm and has
\* px = mm * dpi / 25.4 truncated toward zero; mm = 10.0 at 203 dpi gives 79.
C7_PxIsMmTimesDpiOver25_4 ==
    (/\ md_pc # "loaded"
     /\ opt(md_mm) # None
     /\ flatten(md_pixels) = None
     /\ flatten(md_dpi) # None) =>
        LET mm == opt(md_mm)[1]
            dpi == flatten(md_dpi)[1]
        IN  /\ ~md_out.panicked
            /\ md_out.width =
                  Some([mm |-> mm, px |-> (mm.num * dpi * 10) \div (mm.den * 254)])
            /\ (mm = Rat(10, 1) /\ dpi = 203) => md_out.width[1].px = 79

\* C8: the width is absent, without a failure, exactly when neither mm nor
\* pixels is known; resolution fails exactly when one of the two is known
\* and dpi is not; otherwise the width has both mm and px, which are the
\* source's own when both were known.
C8_WidthOutcomes ==
    md_pc # "loaded" =>
        LET mk == opt(md_mm) # None
            pk == flatten(md_pixels) # None
            dk == flatten(md_dpi) # None
        IN  /\ (~md_out.panicked /\ md_out.width = None) <=> (~mk /\ ~pk)
            /\ md_out.panicked <=> ((mk # pk) /\ ~dk)
            /\ (md_pc = "panicked") <=> md_out.panicked
            /\ (~md_out.panicked /\ (mk \/ pk)) =>
                  /\ Len(md_out.width) = 1
                  /\ DOMAIN md_out.width[1] = {"mm", "px"}
                  /\ md_out.width[1].px \in 0..U16Max
                  /\ md_out.width[1].mm.den # 0
            /\ (mk /\ pk) =>
                  md_out.width = Some([mm |-> opt(md_mm)[1],
                                       px |-> flatten(md_pixels)[1]])

C8_Witness ==
    /\ md_pc = "panicked"
    /\ md_mm = Known(Rat(10, 1))
    /\ md_pixels = Some(Unknown)
    /\ md_dpi = None

\* C9: with_X(true).with_X(false) leaves X off and every other feature as it
\* was (from Features::new() it gives Features::new() back); with_X(b) twice
\* is with_X(b) once; with_X(a).with_Y(b) is with_Y(b).with_X(a) for
\* distinct X and Y; is_X() after with_X(b) is b.
C9_WithIsSetOrClear ==
    /\ \A n \in 1..Len(ft_hist) : is_(ft_hist[n].after, ft_hist[n].fn) = ft_hist[n].on
    /\ \A n \in 1..(Len(ft_hist) - 1) :
          LET a == ft_hist[n]
              b == ft_hist[n + 1]
              flag(fn) == FlagValue(ft_flags,
                            ft_methods[CHOOSE i \in 1..Len(ft_methods) :
                                          ft_methods[i].fn = fn].flag)
          IN  /\ (a.fn = b.fn /\ a.on /\ ~b.on) =>
                    /\ ~is_(b.after, a.fn)
                    /\ \A i \in 1..Len(ft_methods) :
                          ft_methods[i].fn # a.fn =>
                             is_(b.after, ft_methods[i].fn)
                                = is_(a.before, ft_methods[i].fn)
                    /\ a.before = FeaturesNew => b.after = FeaturesNew
              /\ (a.fn = b.fn /\ a.on = b.on) => b.after = a.after
              /\ a.fn # b.fn =>
                    b.after = _with(_with(a.before, flag(b.fn), b.on),
                                    flag(a.fn), a.on)

C9_Witness ==
    /\ Len(ft_methods) = 3
    /\ Len(ft_hist) = 3
    /\ ft_hist[1].fn = "graphics" /\ ft_hist[1].on
    /\ ft_hist[2].fn = "qr_code" /\ ft_hist[2].on
    /\ ft_hist[3].fn = "qr_code" /\ ~ft_hist[3].on
    /\ ft_cur = 2

\* C10: flag i (from 0) is the i-th feature name of the first profile; every
\* profile's emitted flag set has bit i exactly when the profile declares
\* that feature true; a feature the first profile lacks leaves no trace in
\* any record: no bit, and no reference to a flag that was never declared.
C10_BitsFollowTheFirstProfile ==
    cg_pc = "done" =>
        LET canon == keys(DOMAIN first_profile(cg_db))
        IN  /\ Len(cg_flags) = Len(canon)
            /\ \A i \in 1..Len(canon) :
                  cg_flags[i] = [name |-> AsShoutySnakeCase(canon[i]),
                                 bits |-> Pow2(i - 1)]
            /\ \A p \in 1..Len(cg_out) :
                  LET declares == cg_db[cg_out[p].name]
                      chain == cg_out[p].features
                  IN  /\ \A n \in 1..Len(chain) : Declared(cg_flags, chain[n])
                      /\ \A i \in 1..Len(canon) :
                            contains(ChainValue(cg_flags, chain), Pow2(i - 1))
                               <=> (canon[i] \in DOMAIN declares
                                      /\ declares[canon[i]])

====
